---- MODULE Spec2Model ----
(***************************************************************************)
(* Model of the live-translation recording pipeline:                       *)
(*   DeepgramClient (src/src/components/DeepgramClient.ts)  - Segmenter    *)
(*   useRecording   (src/src/hooks/useRecording.ts)         - Controller   *)
(*   AudioMixer     (src/src/components/AudioControls.tsx)  - Mixer        *)
(*   ipcMain file handlers (src/electron/main.ts)           - File sink    *)
(*   TranslationService (src/unnamed/part_007)              - Gateway      *)
(*                                                                         *)
(* JavaScript runs handlers to completion, so every handler (with the      *)
(* microtask continuations it resumes) is one action.  Handlers are        *)
(* written as functions from a program-state record to a program-state     *)
(* record so that they compose in the order the code calls them; St is     *)
(* the record of the current values of the variables and Commit(s)         *)
(* assigns a record to the primed variables.                               *)
(***************************************************************************)
EXTENDS Naturals, Integers, Sequences, FiniteSets

(* ------------------------------ bounds -------------------------------- *)
\* finality-flagged Results messages delivered in one run
MaxFrags == 3
\* WebSocket handshakes that succeed in one run
MaxOpens == 2
\* chunks the encoder produces in one run
MaxChunks == 2
\* startRecording calls in one run
MaxSessions == 2
\* characters of a text handed to translateText
MaxTextLen == 4
\* lines delivered to the display in one run
MaxLines == 5

\* consecutive AudioMixer.cleanup() calls followed
MaxCleanups == 2

(* ------------------------- program constants -------------------------- *)
maxReconnectAttempts == 2
BaseReconnectDelay == 1000
NormalClosure == 1000
AbnormalClosure == 1006
\* translationDisplay.maxLines, the n of slice(-n)
maxLines == 3

Directions == {"en-es", "es-en"}
\* values of the outputFolder and sessionName options ("" is unset)
OutputFolders == {"", "out"}
SessionNames == {"", "session"}

DEFAULT_DEEPGRAM_API_KEY == "your_deepgram_api_key_here"
DEFAULT_GOOGLE_API_KEY == "your_google_api_key_here"

\* results of config:getApiKeys ("" is a key that is absent)
ApiKeys ==
  [ deepgramApiKey : {"", DEFAULT_DEEPGRAM_API_KEY, "deepgram-key"},
    googleApiKey : {"", DEFAULT_GOOGLE_API_KEY, "google-key"} ]

NoApiKeys == [ read |-> FALSE, deepgramApiKey |-> "", googleApiKey |-> "" ]
SessionApiKeys ==
  [ read |-> TRUE, deepgramApiKey |-> "deepgram-key", googleApiKey |-> "google-key" ]

(* ------------------------------- text --------------------------------- *)
\* A string is a sequence of one-character strings.
RECURSIVE TrimLeft(_)
TrimLeft(t) ==
  IF t = <<>> THEN t
  ELSE IF Head(t) = " " THEN TrimLeft(Tail(t)) ELSE t

RECURSIVE TrimRight(_)
TrimRight(t) ==
  IF t = <<>> THEN t
  ELSE IF t[Len(t)] = " " THEN TrimRight(SubSeq(t, 1, Len(t) - 1)) ELSE t

\* String.prototype.trim
Trim(t) == TrimRight(TrimLeft(t))

\* transcripts carried by Results messages
SegTranscripts ==
  { <<>>, <<" ">>, <<"a">>, <<"b">>, <<" ", "a">>, <<"b", " ">> }
CtlTranscripts == { <<"a">>, <<" ">> }
\* texts returned by the translation backend (<<>> is an empty translatedText)
Translations == { <<"x">>, <<>> }

\* characters matched by \s
Whitespace == {" ", "\t"}

\* a replace that leaves the text as it is
CollapseWhitespace_Identity(t) == t

\* text.replace(/\s+/g, ' ')
RECURSIVE CollapseWhitespace(_)
CollapseWhitespace(t) ==
  IF t = <<>> THEN t
  ELSE IF Head(t) \in Whitespace
       THEN IF Len(t) > 1 /\ t[2] \in Whitespace
            THEN CollapseWhitespace(Tail(t))
            ELSE <<" ">> \o CollapseWhitespace(Tail(t))
       ELSE <<Head(t)>> \o CollapseWhitespace(Tail(t))

\* texts of at most n characters
RECURSIVE TextsUpTo(_)
TextsUpTo(n) ==
  IF n = 0 THEN { <<>> }
  ELSE LET shorter == TextsUpTo(n - 1)
       IN  shorter \cup { Append(t, c) : t \in shorter, c \in Whitespace \cup {"a"} }

NoClose == [ sock |-> 0, code |-> 0 ]

NoTranslateCall == [ pc |-> "none", text |-> <<>>, kind |-> "none", value |-> <<>> ]

\* new AudioMixer(): every field is null
NullMixer ==
  [ audioContext |-> "null", micSourceNode |-> FALSE, systemSourceNode |-> FALSE,
    micGainNode |-> FALSE, systemGainNode |-> FALSE, destinationNode |-> FALSE,
    mixedStream |-> FALSE, micStream |-> FALSE, systemStream |-> FALSE,
    mediaRecorder |-> "null" ]

\* no method of the mixer has been called
NoMixerCalls ==
  [ initPc |-> "none", micPc |-> "none", sysPc |-> "none", cleaned |-> FALSE,
    consecutive |-> 0, from |-> "uninitialized",
    last |-> [ op |-> "none", outcome |-> "none" ] ]

MessageTypes ==
  {"Results", "UtteranceEnd", "SpeechStarted", "Metadata", "Unknown", "Unparsable"}

(* ----------------------------- variables ------------------------------ *)
VARIABLES
  \* DeepgramClient fields
  socket, isConnected, isRecording, reconnectAttempts, reconnectDelay,
  pendingUtterance, flushTimer, callbacks,
  \* browser runtime owned by the client: sockets created, live timeouts
  socks, timeouts, reconnectTimers,
  \* AudioMixer fields
  audioContext, micStream, systemStream, mixedStream, mediaRecorder,
  \* useRecording refs and state
  recordingState, error, status, isStoppingRef, hasTranscriptContentRef,
  audioMixerRef, deepgramClientRef, translationServiceRef,
  \* the two async calls of the controller and their suspension points
  startPc, startResult, stopPc, stopResult, stoppedAt, connTimeout,
  \* options of the session
  direction, systemDeviceId, outputFolder, sessionName,
  \* main process: transcriptFiles streams and file contents, IPC channel
  filesOpen, fileEn, fileEs, ipcQ,
  \* the two transcript files exist in the output folder
  filesExist,
  \* AudioMixer instances no longer referenced whose tracks or recorder are live
  orphanedMixers,
  \* per-utterance pipeline instances, lines handed to the UI, appends issued
  utts, uiLines, appendsIssued,
  \* observation of the run: callback invocations and delivered messages
  emitted, frags, lastFlush, owed, terminalError, resumedAfterTerminal,
  nFrags, nOpens, quietExpiries,
  \* encoder chunks being converted to ArrayBuffer, chunks written to a socket
  chunks, audioSent, nChunks,
  \* chunks that the data handler or sendAudio skipped (both log the skip)
  audioDropped,
  \* result of the last getApiKeys call of startRecording
  apiKeys,
  \* startRecording calls made so far
  nSessions,
  \* a translateForDirection call made on the TranslationService, requests sent
  translateCall, fetches,
  \* the rolling display buffer of the overlay panel
  translationLines,
  \* the last close event delivered, calls of attemptReconnection so far
  lastClose, attemptCalls,
  \* the session whose createTranscripts call created the current streams
  filesOf,
  \* an AudioMixer instance field by field, and the calls made on it:
  \* suspended calls, the last call with its outcome, consecutive cleanups
  mixer, mixerCalls

vars ==
  << socket, isConnected, isRecording, reconnectAttempts, reconnectDelay,
     pendingUtterance, flushTimer, callbacks, socks, timeouts, reconnectTimers,
     audioContext, micStream, systemStream, mixedStream, mediaRecorder,
     recordingState, error, status, isStoppingRef, hasTranscriptContentRef,
     audioMixerRef, deepgramClientRef, translationServiceRef,
     startPc, startResult, stopPc, stopResult, stoppedAt, connTimeout,
     direction, systemDeviceId,
     filesOpen, fileEn, fileEs, ipcQ, filesExist, orphanedMixers,
     utts, uiLines, appendsIssued,
     emitted, frags, lastFlush, owed, terminalError, resumedAfterTerminal,
     nFrags, nOpens, quietExpiries,
     chunks,
     audioSent,
     nChunks,
     audioDropped,
     outputFolder,
     sessionName,
     apiKeys,
     nSessions,
     translateCall,
     fetches,
     translationLines,
     lastClose,
     attemptCalls,
     filesOf,
     mixer,
     mixerCalls >>

St ==
  [ socket |-> socket, isConnected |-> isConnected, isRecording |-> isRecording,
    reconnectAttempts |-> reconnectAttempts, reconnectDelay |-> reconnectDelay,
    pendingUtterance |-> pendingUtterance, flushTimer |-> flushTimer,
    callbacks |-> callbacks, socks |-> socks, timeouts |-> timeouts,
    reconnectTimers |-> reconnectTimers,
    audioContext |-> audioContext, micStream |-> micStream,
    systemStream |-> systemStream, mixedStream |-> mixedStream,
    mediaRecorder |-> mediaRecorder,
    recordingState |-> recordingState, error |-> error, status |-> status,
    isStoppingRef |-> isStoppingRef,
    hasTranscriptContentRef |-> hasTranscriptContentRef,
    audioMixerRef |-> audioMixerRef, deepgramClientRef |-> deepgramClientRef,
    translationServiceRef |-> translationServiceRef,
    startPc |-> startPc, startResult |-> startResult, stopPc |-> stopPc,
    stopResult |-> stopResult, stoppedAt |-> stoppedAt,
    connTimeout |-> connTimeout,
    direction |-> direction, systemDeviceId |-> systemDeviceId,
    filesOpen |-> filesOpen, fileEn |-> fileEn, fileEs |-> fileEs,
    ipcQ |-> ipcQ, filesExist |-> filesExist, orphanedMixers |-> orphanedMixers,
    utts |-> utts, uiLines |-> uiLines, appendsIssued |-> appendsIssued,
    emitted |-> emitted, frags |-> frags, lastFlush |-> lastFlush,
    owed |-> owed, terminalError |-> terminalError,
    resumedAfterTerminal |-> resumedAfterTerminal,
    nFrags |-> nFrags, nOpens |-> nOpens, quietExpiries |-> quietExpiries,
    chunks |-> chunks,
    audioSent |-> audioSent,
    nChunks |-> nChunks,
    audioDropped |-> audioDropped,
    outputFolder |-> outputFolder,
    sessionName |-> sessionName,
    apiKeys |-> apiKeys,
    nSessions |-> nSessions,
    translateCall |-> translateCall,
    fetches |-> fetches,
    translationLines |-> translationLines,
    lastClose |-> lastClose,
    attemptCalls |-> attemptCalls,
    filesOf |-> filesOf,
    mixer |-> mixer,
    mixerCalls |-> mixerCalls ]

\* the record is bound once, so that it is evaluated once
Commit(s) ==
  \E r \in {s} :
    /\ socket' = r.socket
    /\ isConnected' = r.isConnected
    /\ isRecording' = r.isRecording
    /\ reconnectAttempts' = r.reconnectAttempts
    /\ reconnectDelay' = r.reconnectDelay
    /\ pendingUtterance' = r.pendingUtterance
    /\ flushTimer' = r.flushTimer
    /\ callbacks' = r.callbacks
    /\ socks' = r.socks
    /\ timeouts' = r.timeouts
    /\ reconnectTimers' = r.reconnectTimers
    /\ audioContext' = r.audioContext
    /\ micStream' = r.micStream
    /\ systemStream' = r.systemStream
    /\ mixedStream' = r.mixedStream
    /\ mediaRecorder' = r.mediaRecorder
    /\ recordingState' = r.recordingState
    /\ error' = r.error
    /\ status' = r.status
    /\ isStoppingRef' = r.isStoppingRef
    /\ hasTranscriptContentRef' = r.hasTranscriptContentRef
    /\ audioMixerRef' = r.audioMixerRef
    /\ deepgramClientRef' = r.deepgramClientRef
    /\ translationServiceRef' = r.translationServiceRef
    /\ startPc' = r.startPc
    /\ startResult' = r.startResult
    /\ stopPc' = r.stopPc
    /\ stopResult' = r.stopResult
    /\ stoppedAt' = r.stoppedAt
    /\ connTimeout' = r.connTimeout
    /\ direction' = r.direction
    /\ systemDeviceId' = r.systemDeviceId
    /\ filesOpen' = r.filesOpen
    /\ fileEn' = r.fileEn
    /\ fileEs' = r.fileEs
    /\ ipcQ' = r.ipcQ
    /\ filesExist' = r.filesExist
    /\ orphanedMixers' = r.orphanedMixers
    /\ utts' = r.utts
    /\ uiLines' = r.uiLines
    /\ appendsIssued' = r.appendsIssued
    /\ emitted' = r.emitted
    /\ frags' = r.frags
    /\ lastFlush' = r.lastFlush
    /\ owed' = r.owed
    /\ terminalError' = r.terminalError
    /\ resumedAfterTerminal' = r.resumedAfterTerminal
    /\ nFrags' = r.nFrags
    /\ nOpens' = r.nOpens
    /\ quietExpiries' = r.quietExpiries
    /\ chunks' = r.chunks
    /\ audioSent' = r.audioSent
    /\ nChunks' = r.nChunks
    /\ audioDropped' = r.audioDropped
    /\ outputFolder' = r.outputFolder
    /\ sessionName' = r.sessionName
    /\ apiKeys' = r.apiKeys
    /\ nSessions' = r.nSessions
    /\ translateCall' = r.translateCall
    /\ fetches' = r.fetches
    /\ translationLines' = r.translationLines
    /\ lastClose' = r.lastClose
    /\ attemptCalls' = r.attemptCalls
    /\ filesOf' = r.filesOf
    /\ mixer' = r.mixer
    /\ mixerCalls' = r.mixerCalls

(* ------------------- useRecording: Segmenter callbacks ------------------ *)
ErrorLine(text) ==
  [ kind |-> "error", text |-> <<"[Translation Error] ">> \o text, original |-> text ]

TranslationLine(translated, text) ==
  [ kind |-> "line", text |-> translated, original |-> text ]

\* a buffer that stops taking lines once it is full
AddTranslation_KeepsOldest(lines, line) ==
  IF Len(lines) < maxLines THEN Append(lines, line) ELSE lines

\* [...prev, line].slice(-3); addTranslation: push, then shift when over maxLines
AddTranslation(lines, line) ==
  LET updated == Append(lines, line)
  IN  IF Len(updated) > maxLines
      THEN SubSeq(updated, Len(updated) - maxLines + 1, Len(updated))
      ELSE updated

\* onTranslationReceived: the line reaches the UI, which puts it on display
OnTranslationReceived(s, line) ==
  [ s EXCEPT !.uiLines = Append(@, line),
             !.translationLines = AddTranslation(@, line) ]

\* a catch block that also gives up the session
OnTranscriptCatch_TearsDown(s, text, err) ==
  [ OnTranslationReceived(s, ErrorLine(text)) EXCEPT
      !.error = err, !.translationServiceRef = FALSE, !.recordingState = "idle" ]

\* catch block of the onTranscript callback
OnTranscriptCatch(s, text, err) ==
  [ OnTranslationReceived(s, ErrorLine(text)) EXCEPT !.error = err ]

\* onTranscript callback up to its first await: the translation request
OnTranscript(s, text) ==
  IF Trim(text) = <<>> THEN s
  ELSE IF ~s.translationServiceRef
       THEN OnTranscriptCatch(s, text, "TypeError")
       ELSE [ s EXCEPT !.utts = Append(@, [ text |-> text, stage |-> "translating",
                                            translated |-> <<>>,
                                            session |-> s.nSessions ]) ]

\* invocation of onTranscriptCallback by the client
CbTranscript(s, text) ==
  OnTranscript([ s EXCEPT !.emitted = Append(@, text) ], text)

\* onConnection callback
OnConnection(s, st) ==
  IF st = "connected"
  THEN [ s EXCEPT !.status = "LISTENING", !.recordingState = "recording" ]
  ELSE IF st = "reconnecting"
  THEN [ s EXCEPT !.status = "RECONNECTING" ]
  ELSE IF ~s.isStoppingRef
       THEN [ s EXCEPT !.status = "ERROR", !.error = "CONNECTION_LOST" ]
       ELSE s

\* invocation of onConnectionCallback by the client
CbConnection(s, st) ==
  IF ~s.callbacks THEN s
  ELSE [ OnConnection(s, st) EXCEPT
           !.resumedAfterTerminal =
              @ \/ (s.terminalError /\ st \in {"connected", "reconnecting"}) ]

\* onError callback
OnError(s) ==
  [ s EXCEPT !.status = "ERROR", !.error = "DEEPGRAM_ERROR" ]

\* invocation of onErrorCallback by the client; kind "terminal" is the
\* 'Failed to reconnect to Deepgram' error
CbError(s, kind) ==
  IF ~s.callbacks THEN s
  ELSE [ OnError(s) EXCEPT !.terminalError = @ \/ (kind = "terminal") ]

(* --------------------------- DeepgramClient ---------------------------- *)
DeepgramLanguage(d) == IF d = "en-es" THEN "en-US" ELSE "es"

\* the new piece put in front of the accumulated text
AccumulatePiece_Prepend(pending, piece) ==
  IF pending # <<>> THEN piece \o <<" ">> \o pending ELSE piece

AccumulatePiece(pending, piece) ==
  IF pending # <<>> THEN pending \o <<" ">> \o piece ELSE piece

\* a flush that leaves the accumulated text in place
FlushPendingUtterance_KeepsPending(s) ==
  LET text == Trim(s.pendingUtterance)
      s1 == IF text # <<>> /\ s.callbacks THEN CbTranscript(s, text) ELSE s
  IN  [ s1 EXCEPT !.timeouts = IF s1.flushTimer # 0 THEN @ \ {s1.flushTimer} ELSE @,
                  !.flushTimer = 0 ]

\* a flush that does not test the text before invoking the callback
FlushPendingUtterance_EmitsEmpty(s) ==
  LET text == Trim(s.pendingUtterance)
      s1 == IF s.callbacks THEN CbTranscript(s, text) ELSE s
  IN  [ s1 EXCEPT !.pendingUtterance = <<>>,
                  !.timeouts = IF s1.flushTimer # 0 THEN @ \ {s1.flushTimer} ELSE @,
                  !.flushTimer = 0 ]

\* a flush that leaves the quiet timer armed
FlushPendingUtterance_LeavesTimer(s) ==
  LET text == Trim(s.pendingUtterance)
      s1 == IF text # <<>> /\ s.callbacks THEN CbTranscript(s, text) ELSE s
  IN  [ s1 EXCEPT !.pendingUtterance = <<>> ]

FlushPendingUtterance(s) ==
  LET text == Trim(s.pendingUtterance)
      s1 == IF text # <<>> /\ s.callbacks THEN CbTranscript(s, text) ELSE s
  IN  [ s1 EXCEPT !.pendingUtterance = <<>>,
                  !.timeouts = IF s1.flushTimer # 0 THEN @ \ {s1.flushTimer} ELSE @,
                  !.flushTimer = 0 ]

RestartQuietFlushTimer(s) ==
  LET live == IF s.flushTimer # 0 THEN s.timeouts \ {s.flushTimer} ELSE s.timeouts
      h == CHOOSE n \in 1..(Cardinality(live) + 1) : n \notin live
  IN  [ s EXCEPT !.timeouts = live \cup {h}, !.flushTimer = h ]

\* a handler that accumulates interim fragments as well
HandleMessage_AccumulatesInterims(s, m) ==
  IF m.type = "Results"
  THEN IF m.transcript # <<>>
       THEN LET piece == Trim(m.transcript)
                s1 == IF piece # <<>>
                      THEN [ s EXCEPT !.pendingUtterance = AccumulatePiece(@, piece) ]
                      ELSE s
            IN  IF m.is_final THEN RestartQuietFlushTimer(s1) ELSE s1
       ELSE s
  ELSE IF m.type = "UtteranceEnd"
  THEN FlushPendingUtterance(s)
  ELSE s

HandleMessage(s, m) ==
  IF m.type = "Results"
  THEN IF m.transcript # <<>>
       THEN IF m.is_final
            THEN LET piece == Trim(m.transcript)
                     s1 == IF piece # <<>>
                           THEN [ s EXCEPT !.pendingUtterance = AccumulatePiece(@, piece) ]
                           ELSE s
                 IN  RestartQuietFlushTimer(s1)
            ELSE s
       ELSE s
  ELSE IF m.type = "UtteranceEnd"
  THEN FlushPendingUtterance(s)
  ELSE s

AttemptReconnection(s) ==
  LET s0 == [ s EXCEPT !.attemptCalls = @ + 1 ]
  IN  IF s0.reconnectAttempts >= maxReconnectAttempts
      THEN CbError(s0, "terminal")
      ELSE LET s1 == CbConnection([ s0 EXCEPT !.reconnectAttempts = @ + 1 ],
                                  "reconnecting")
           IN  [ s1 EXCEPT !.reconnectTimers = Append(@, s1.reconnectDelay) ]

\* connect(): a new WebSocket unless already connected
Connect(s, kind, language) ==
  IF s.socket # 0 /\ s.isConnected THEN s
  ELSE [ s EXCEPT !.socks = Append(@, [ state |-> "connecting", kind |-> kind,
                                        language |-> language ]),
                  !.socket = Len(s.socks) + 1,
                  !.resumedAfterTerminal = @ \/ s.terminalError ]

SocketOnOpen(s, k) ==
  CbConnection([ s EXCEPT !.socks[k].state = "open",
                          !.isConnected = TRUE,
                          !.reconnectAttempts = 0,
                          !.reconnectDelay = BaseReconnectDelay ], "connected")

\* an onclose that reconnects after every unexpected closure
SocketOnClose_IgnoresArmed(s, k, code) ==
  LET s1 == CbConnection([ s EXCEPT !.socks[k].state = "closed",
                                    !.isConnected = FALSE,
                                    !.lastClose = [ sock |-> k, code |-> code ] ],
                         "disconnected")
  IN  IF code # NormalClosure THEN AttemptReconnection(s1) ELSE s1

SocketOnClose(s, k, code) ==
  LET s1 == CbConnection([ s EXCEPT !.socks[k].state = "closed",
                                    !.isConnected = FALSE,
                                    !.lastClose = [ sock |-> k, code |-> code ] ],
                         "disconnected")
  IN  IF code # NormalClosure /\ s1.isRecording THEN AttemptReconnection(s1) ELSE s1

SocketOnError(s, k) ==
  CbError([ s EXCEPT !.socks[k].state = "errored", !.isConnected = FALSE ], "socket")

\* a catch block that retries without doubling the delay
ReconnectCatch_KeepsDelay(s) == AttemptReconnection(s)

\* catch block of the back-off timer callback
ReconnectCatch(s) ==
  AttemptReconnection([ s EXCEPT !.reconnectDelay = @ * 2 ])

DgStartRecording(s) == [ s EXCEPT !.isRecording = TRUE ]

\* sendAudio(audioData)
SendAudio(s, c) ==
  IF s.socket # 0 /\ s.isConnected /\ s.socks[s.socket].state = "open"
  THEN [ s EXCEPT !.audioSent = Append(@, [ chunk |-> c, sock |-> s.socket,
                                            connected |-> s.isConnected ]) ]
  ELSE [ s EXCEPT !.audioDropped = Append(@, [ chunk |-> c, at |-> "sendAudio" ]) ]

\* a stop() that cancels the quiet timer without flushing
DgStop_CancelsQuietTimer(s) ==
  LET s1 == [ s EXCEPT !.isRecording = FALSE,
                       !.timeouts = IF s.flushTimer # 0 THEN @ \ {s.flushTimer} ELSE @,
                       !.flushTimer = 0 ]
  IN  IF s1.socket # 0 /\ s1.isConnected
      THEN [ s1 EXCEPT !.socks[s1.socket].state = "closing",
                       !.socket = 0,
                       !.isConnected = FALSE ]
      ELSE s1

DgStop(s) ==
  LET s1 == [ s EXCEPT !.isRecording = FALSE ]
  IN  IF s1.socket # 0 /\ s1.isConnected
      THEN [ s1 EXCEPT !.socks[s1.socket].state = "closing",
                       !.socket = 0,
                       !.isConnected = FALSE ]
      ELSE s1

\* new DeepgramClient(apiKey): the fields describe the new instance; the
\* sockets and timers of a replaced instance stay in the browser and are not
\* followed further
NewDeepgramClient(s) ==
  [ s EXCEPT !.socks = [ k \in 1..Len(@) |->
                           IF @[k].state = "closed" THEN @[k]
                           ELSE [ @[k] EXCEPT !.state = "orphaned" ] ],
             !.timeouts = {}, !.reconnectTimers = <<>>,
             !.socket = 0, !.isConnected = FALSE, !.isRecording = FALSE,
             !.reconnectAttempts = 0, !.reconnectDelay = BaseReconnectDelay,
             !.pendingUtterance = <<>>, !.flushTimer = 0, !.callbacks = FALSE,
             !.deepgramClientRef = TRUE ]

(* ------------------------------ AudioMixer ----------------------------- *)
\* new AudioMixer(): the fields describe the new instance
NewAudioMixer(s) ==
  [ s EXCEPT !.orphanedMixers =
                IF s.micStream \/ s.systemStream \/ s.mediaRecorder THEN @ + 1 ELSE @,
             !.micStream = FALSE, !.systemStream = FALSE, !.mixedStream = FALSE,
             !.mediaRecorder = FALSE, !.audioContext = TRUE,
             !.audioMixerRef = TRUE ]

\* a data handler that hands every non-empty chunk to the conversion
OnDataAvailable_IgnoresConnection(s, c) ==
  IF c.size > 0 THEN [ s EXCEPT !.chunks = Append(@, c) ] ELSE s

\* mediaRecorder.ondataavailable up to the arrayBuffer() promise
OnDataAvailable(s, c) ==
  IF c.size > 0 /\ s.isConnected THEN [ s EXCEPT !.chunks = Append(@, c) ]
  ELSE [ s EXCEPT !.audioDropped = Append(@, [ chunk |-> c, at |-> "ondataavailable" ]) ]

MixerCleanup(s) ==
  [ s EXCEPT !.mediaRecorder = FALSE, !.micStream = FALSE, !.systemStream = FALSE,
             !.audioContext = FALSE, !.mixedStream = FALSE ]

(* ----------------------- AudioMixer, field by field -------------------- *)
\* a method of the mixer returns, throws or suspends
MixerCall(s, op, outcome) ==
  [ s EXCEPT !.mixerCalls.last = [ op |-> op, outcome |-> outcome ],
             !.mixerCalls.consecutive = 0 ]

\* a cleanup that does not close the audio context
AudioMixerCleanup_KeepsContext(m) ==
  [ m EXCEPT !.mediaRecorder = IF @ # "null" /\ @ # "inactive" THEN "null" ELSE @,
             !.micSourceNode = FALSE, !.systemSourceNode = FALSE,
             !.micGainNode = FALSE, !.systemGainNode = FALSE,
             !.micStream = FALSE, !.systemStream = FALSE,
             !.destinationNode = FALSE, !.mixedStream = FALSE ]

\* AudioMixer.cleanup(): none of the guarded browser calls throws
AudioMixerCleanup(m) ==
  [ m EXCEPT !.mediaRecorder = IF @ # "null" /\ @ # "inactive" THEN "null" ELSE @,
             !.micSourceNode = FALSE, !.systemSourceNode = FALSE,
             !.micGainNode = FALSE, !.systemGainNode = FALSE,
             !.micStream = FALSE, !.systemStream = FALSE,
             !.audioContext = IF @ # "null" /\ @ # "closed" THEN "null" ELSE @,
             !.destinationNode = FALSE, !.mixedStream = FALSE ]

\* AudioMixer.initialize() after the context exists and is running
AudioMixerInitializeRest(s) ==
  IF s.mixer.audioContext = "null"
  THEN MixerCall(s, "initialize", "threw")
  ELSE MixerCall([ s EXCEPT !.mixer.audioContext = "running",
                            !.mixer.destinationNode = TRUE,
                            !.mixer.micGainNode = TRUE,
                            !.mixer.systemGainNode = TRUE ], "initialize", "ok")

\* AudioMixer.initialize() up to audioContext.resume()
AudioMixerInitialize(s, suspended) ==
  IF suspended
  THEN MixerCall([ s EXCEPT !.mixer.audioContext = "suspended",
                            !.mixerCalls.initPc = "resume" ], "initialize", "pending")
  ELSE AudioMixerInitializeRest([ s EXCEPT !.mixer.audioContext = "running" ])

\* AudioMixer.connectMicrophoneStream() up to getUserMedia
ConnectMicrophoneStream(s) ==
  IF s.mixer.audioContext = "null"
  THEN MixerCall(s, "connectMicrophoneStream", "threw")
  ELSE MixerCall([ s EXCEPT !.mixerCalls.micPc = "getUserMedia" ],
                 "connectMicrophoneStream", "pending")

\* AudioMixer.connectMicrophoneStream() after getUserMedia has settled
ConnectMicrophoneStreamRest(s, ok) ==
  LET s0 == [ s EXCEPT !.mixerCalls.micPc = "none" ]
      s1 == [ s0 EXCEPT !.mixer.micStream = TRUE ]
  IN  IF ~ok THEN MixerCall(s0, "connectMicrophoneStream", "threw")
      ELSE IF s1.mixer.audioContext = "null"
      THEN MixerCall(s1, "connectMicrophoneStream", "threw")
      ELSE IF ~s1.mixer.micGainNode
      THEN MixerCall([ s1 EXCEPT !.mixer.micSourceNode = TRUE ],
                     "connectMicrophoneStream", "threw")
      ELSE MixerCall([ s1 EXCEPT !.mixer.micSourceNode = TRUE ],
                     "connectMicrophoneStream", "ok")

\* AudioMixer.connectSystemStream() up to getUserMedia
ConnectSystemStream(s) ==
  IF s.mixer.audioContext = "null"
  THEN MixerCall(s, "connectSystemStream", "threw")
  ELSE MixerCall([ s EXCEPT !.mixerCalls.sysPc = "getUserMedia" ],
                 "connectSystemStream", "pending")

\* AudioMixer.connectSystemStream() after getUserMedia has settled
ConnectSystemStreamRest(s, ok) ==
  LET s0 == [ s EXCEPT !.mixerCalls.sysPc = "none" ]
      s1 == [ s0 EXCEPT !.mixer.systemStream = TRUE ]
  IN  IF ~ok THEN MixerCall(s0, "connectSystemStream", "threw")
      ELSE IF s1.mixer.audioContext = "null"
      THEN MixerCall(s1, "connectSystemStream", "threw")
      ELSE IF ~s1.mixer.systemGainNode
      THEN MixerCall([ s1 EXCEPT !.mixer.systemSourceNode = TRUE ],
                     "connectSystemStream", "threw")
      ELSE MixerCall([ s1 EXCEPT !.mixer.systemSourceNode = TRUE ],
                     "connectSystemStream", "ok")

\* AudioMixer.getMixedStream()
GetMixedStream(s) ==
  IF ~s.mixer.destinationNode THEN MixerCall(s, "getMixedStream", "threw")
  ELSE MixerCall([ s EXCEPT !.mixer.mixedStream = TRUE ], "getMixedStream", "ok")

\* AudioMixer.setupDeepgramStreaming(), whose caller stores the started
\* recorder in the mixer's mediaRecorder field
SetupDeepgramStreaming(s, codec) ==
  IF ~s.mixer.mixedStream \/ ~codec
  THEN MixerCall(s, "setupDeepgramStreaming", "threw")
  ELSE MixerCall([ s EXCEPT !.mixer.mediaRecorder = "recording" ],
                 "setupDeepgramStreaming", "ok")

\* the lifecycle state of a mixer, read from its fields
MixerState(m) ==
  IF m.mediaRecorder = "recording" THEN "streaming"
  ELSE IF m.systemSourceNode THEN "secondary-connected"
  ELSE IF m.micSourceNode THEN "primary-connected"
  ELSE IF m.destinationNode THEN "initialized"
  ELSE "uninitialized"

\* a call of AudioMixer.cleanup()
AudioMixerCleanupCall(s) ==
  LET again == s.mixerCalls.last.op = "cleanup"
  IN  [ s EXCEPT !.mixer = AudioMixerCleanup(@),
                 !.mixerCalls.cleaned = TRUE,
                 !.mixerCalls.from = IF again THEN @ ELSE MixerState(s.mixer),
                 !.mixerCalls.consecutive = IF again THEN @ + 1 ELSE 1,
                 !.mixerCalls.last = [ op |-> "cleanup", outcome |-> "ok" ] ]

(* ------------------------- useRecording: cleanup ----------------------- *)
\* cleanup() up to the closeTranscriptFiles call
CleanupRelease(s) ==
  LET s1 == IF s.deepgramClientRef
            THEN [ DgStop(s) EXCEPT !.deepgramClientRef = FALSE ] ELSE s
      s2 == IF s1.audioMixerRef
            THEN [ MixerCleanup(s1) EXCEPT !.audioMixerRef = FALSE ] ELSE s1
  IN  [ s2 EXCEPT !.translationServiceRef = FALSE ]

\* cleanup() after the closeTranscriptFiles call
CleanupFinish(s) ==
  [ s EXCEPT !.hasTranscriptContentRef = FALSE, !.recordingState = "idle",
             !.error = "null" ]

\* end of startRecording's catch block, after cleanup() has returned
StartRethrow(s, err) == [ s EXCEPT !.startPc = "done", !.startResult = err ]

\* startRecording's catch block
StartCatch(s, err) ==
  LET s1 == CleanupRelease([ s EXCEPT !.error = err, !.recordingState = "idle",
                                      !.status = "ERROR" ])
  IN  IF s1.hasTranscriptContentRef
      THEN [ s1 EXCEPT !.ipcQ = Append(@, [ op |-> "close", who |-> "start", arg |-> err ]),
                       !.startPc = "cleanup" ]
      ELSE StartRethrow(CleanupFinish(s1), err)

\* end of stopRecording, after cleanup() has returned
StopReturn(s, hadContent) ==
  [ s EXCEPT !.isStoppingRef = FALSE, !.stopPc = "done", !.stopResult = hadContent ]

\* stopRecording
StopRecordingCall(s) ==
  LET hadContent == IF s.hasTranscriptContentRef THEN "true" ELSE "false"
      s1 == CleanupRelease([ s EXCEPT !.recordingState = "stopping",
                                      !.isStoppingRef = TRUE,
                                      !.stoppedAt = s.startPc ])
  IN  IF s1.hasTranscriptContentRef
      THEN [ s1 EXCEPT !.ipcQ = Append(@, [ op |-> "close", who |-> "stop",
                                            arg |-> hadContent ]),
                       !.stopPc = "cleanup" ]
      ELSE StopReturn(CleanupFinish(s1), hadContent)

(* ------------------------- observation helpers ------------------------- *)
\* texts joined by single spaces
RECURSIVE JoinSp(_)
JoinSp(ts) ==
  IF ts = <<>> THEN <<>>
  ELSE IF Len(ts) = 1 THEN ts[1]
  ELSE ts[1] \o <<" ">> \o JoinSp(Tail(ts))

TrimAll(ts) == [ i \in 1..Len(ts) |-> Trim(ts[i]) ]

NonEmpty(ts) == SelectSeq(ts, LAMBDA x : x # <<>>)

NoFlush == [ trigger |-> "none", frags |-> <<>>, pending |-> <<>>, n |-> 0, text |-> <<>> ]

\* record what a flush trigger (UtteranceEnd or quiet-timer expiry) did
Observe(before, after, trigger) ==
  LET new == SubSeq(after.emitted, Len(before.emitted) + 1, Len(after.emitted))
  IN  [ after EXCEPT
          !.lastFlush = [ trigger |-> trigger, frags |-> before.frags,
                          pending |-> before.pendingUtterance, n |-> Len(new),
                          text |-> IF new # <<>> THEN new[Len(new)] ELSE <<>> ],
          !.frags = <<>>,
          !.owed = IF \E i \in 1..Len(new) : new[i] = JoinSp(before.owed)
                   THEN <<>> ELSE @ ]

\* record the delivery of an inbound message
Delivered(s, m) ==
  LET final == m.type = "Results" /\ m.is_final
  IN  [ s EXCEPT !.nFrags = IF final THEN @ + 1 ELSE @,
                 !.frags = IF final THEN Append(@, m.transcript) ELSE @,
                 !.owed = IF final /\ Trim(m.transcript) # <<>>
                          THEN Append(@, Trim(m.transcript)) ELSE @ ]

Messages(T) ==
  [ type : {"Results"}, is_final : BOOLEAN, transcript : T ]
  \cup [ type : MessageTypes \ {"Results"}, is_final : {FALSE}, transcript : {<<>>} ]

\* an error event has been dispatched on a socket and its close event, which
\* the browser fires in the same task, has not run yet
Dispatching == \E k \in 1..Len(socks) : socks[k].state = "errored"

(* --------------------------- Segmenter events -------------------------- *)
\* socket.onmessage
RecvMessage(k, m, maxFinal) ==
  /\ ~Dispatching
  /\ k \in 1..Len(socks)
  /\ socks[k].state = "open"
  /\ (m.type = "Results" /\ m.is_final) => nFrags < maxFinal
  /\ LET s0 == Delivered(St, m)
         s1 == HandleMessage(s0, m)
     IN  Commit(IF m.type = "UtteranceEnd" THEN Observe(s0, s1, "boundary") ELSE s1)

\* the quiet-flush timeout fires
QuietTimerExpiry(h) ==
  /\ ~Dispatching
  /\ h \in timeouts
  /\ LET s0 == [ St EXCEPT !.timeouts = @ \ {h}, !.quietExpiries = @ + 1 ]
     IN  Commit(Observe(St, FlushPendingUtterance(s0), "timer"))

\* socket.onopen, and the continuation of the connect() promise
SocketOpen(k) ==
  /\ ~Dispatching
  /\ k \in 1..Len(socks)
  /\ socks[k].state = "connecting"
  /\ nOpens < MaxOpens
  /\ LET s1 == SocketOnOpen([ St EXCEPT !.nOpens = @ + 1 ], k)
     IN  Commit(IF socks[k].kind = "initial" /\ startPc = "connect"
                THEN [ s1 EXCEPT !.startPc = "delay" ]
                ELSE s1)

\* socket.onerror, and the continuation of the rejected connect() promise
SocketFail(k) ==
  /\ ~Dispatching
  /\ k \in 1..Len(socks)
  /\ socks[k].state \in {"connecting", "open"}
  /\ LET s1 == SocketOnError(St, k)
     IN  Commit(IF socks[k].state = "connecting"
                THEN IF socks[k].kind = "reconnect" THEN ReconnectCatch(s1)
                     ELSE IF startPc = "connect" THEN StartCatch(s1, "ConnectionError")
                     ELSE s1
                ELSE s1)

CloseCodes(state) ==
  IF state = "errored" THEN {AbnormalClosure}
  ELSE IF state = "open" THEN {NormalClosure, 1011}
  ELSE IF state = "closing" THEN {NormalClosure, AbnormalClosure}
  ELSE {}

\* socket.onclose
SocketClose(k, code) ==
  /\ k \in 1..Len(socks)
  /\ ~Dispatching \/ socks[k].state = "errored"
  /\ code \in CloseCodes(socks[k].state)
  /\ Commit(SocketOnClose(St, k, code))

\* the back-off timeout of attemptReconnection fires
ReconnectTimerFires(i) ==
  /\ ~Dispatching
  /\ i \in 1..Len(reconnectTimers)
  /\ LET s0 == [ St EXCEPT !.reconnectTimers =
                    SubSeq(@, 1, i - 1) \o SubSeq(@, i + 1, Len(@)) ]
     IN  Commit(Connect(s0, "reconnect", "en-US"))

(* ------------------------------ audio path ----------------------------- *)
\* the encoder delivers a chunk of the given size to ondataavailable
DataAvailable(size) ==
  /\ ~Dispatching
  /\ mediaRecorder
  /\ nChunks < MaxChunks
  /\ LET c == [ id |-> nChunks + 1, size |-> size, connected |-> isConnected ]
     IN  Commit(OnDataAvailable([ St EXCEPT !.nChunks = @ + 1 ], c))

\* event.data.arrayBuffer() resolves: sendAudio(buffer)
ChunkConverted(i) ==
  /\ ~Dispatching
  /\ i \in 1..Len(chunks)
  /\ LET s0 == [ St EXCEPT !.chunks = SubSeq(@, 1, i - 1) \o SubSeq(@, i + 1, Len(@)) ]
     IN  Commit(SendAudio(s0, chunks[i]))

(* --------------------------- startRecording ---------------------------- *)
IpcRequest(op, who, arg, utt, text) ==
  [ op |-> op, who |-> who, arg |-> arg, utt |-> utt, text |-> text ]

\* validateApiKeys onwards: getApiKeys is an IPC call
AfterCapture(s) ==
  IF ~s.audioMixerRef THEN StartCatch(s, "TypeError")
  ELSE [ s EXCEPT !.mixedStream = TRUE,
                  !.ipcQ = Append(@, IpcRequest("keys", "start", "", 0, <<>>)),
                  !.startPc = "keys" ]

\* validateRecordingSetup: TRUE when it does not throw
ValidateRecordingSetup(folder, name) == ~(folder = "" \/ name = "")

\* a startRecording that does not look at the result of the validation
StartRecordingCall_SkipsValidation(s, valid) ==
  [ s EXCEPT !.recordingState = "initializing", !.error = "null",
             !.status = "CONNECTING", !.startResult = "pending",
             !.ipcQ = Append(@, IpcRequest("create", "start", "", 0, <<>>)),
             !.startPc = "createFiles" ]

\* startRecording up to the await of createTranscriptFiles
StartRecordingCall(s, valid) ==
  LET s0 == [ s EXCEPT !.recordingState = "initializing", !.error = "null",
                       !.status = "CONNECTING", !.startResult = "pending" ]
  IN  IF ~valid THEN StartCatch(s0, "ValidationError")
      ELSE [ s0 EXCEPT !.ipcQ = Append(@, IpcRequest("create", "start", "", 0, <<>>)),
                       !.startPc = "createFiles" ]

StartRecording(valid) ==
  /\ ~Dispatching
  /\ startPc = "none"
  /\ Commit(StartRecordingCall([ St EXCEPT !.nSessions = @ + 1 ], valid))

\* startRecording called for a further session, after the stopRecording of
\* the previous one has returned and its connection timeout is spent
StartRecordingAfterStop ==
  /\ ~Dispatching
  /\ startPc = "done" /\ stopPc = "done"
  /\ recordingState = "idle"
  /\ connTimeout # "armed"
  /\ nSessions < MaxSessions
  /\ Commit(StartRecordingCall(
        [ St EXCEPT !.nSessions = @ + 1, !.stopPc = "none",
                    !.stopResult = "none", !.stoppedAt = "none" ],
        ValidateRecordingSetup(outputFolder, sessionName)))

\* startRecording called again, with the same options, while the session of
\* an earlier call is recording
StartRecordingAgain ==
  /\ ~Dispatching
  /\ startPc = "done" /\ stopPc = "none"
  /\ recordingState = "recording"
  /\ Commit(StartRecordingCall([ St EXCEPT !.nSessions = @ + 1 ],
                                ValidateRecordingSetup(outputFolder, sessionName)))

\* files:createTranscripts handler, then startRecording up to initialize()
IpcCreate(ok) ==
  /\ ~Dispatching
  /\ ipcQ # <<>> /\ Head(ipcQ).op = "create"
  /\ LET s0 == [ St EXCEPT !.ipcQ = Tail(@), !.filesOpen = ok,
                           !.filesExist = @ \/ ok,
                           !.filesOf = IF ok THEN nSessions ELSE @,
                           !.fileEn = IF ok THEN <<>> ELSE @,
                           !.fileEs = IF ok THEN <<>> ELSE @ ]
     IN  Commit(IF ~ok THEN StartCatch(s0, "FILE_CREATION_ERROR")
                ELSE [ NewAudioMixer(s0) EXCEPT !.startPc = "mixerInit" ])

\* AudioMixer.initialize() resumes, then connectMicrophoneStream up to getUserMedia
MixerInitDone(ok) ==
  /\ ~Dispatching
  /\ startPc = "mixerInit"
  /\ Commit(IF ~ok THEN StartCatch(St, "AudioInitError")
            ELSE IF ~audioContext \/ ~audioMixerRef THEN StartCatch(St, "TypeError")
            ELSE [ St EXCEPT !.startPc = "mic" ])

\* getUserMedia of the microphone resolves or rejects
MicDone(ok) ==
  /\ ~Dispatching
  /\ startPc = "mic"
  /\ Commit(IF ~ok THEN StartCatch(St, "DeviceAcquisitionError")
            ELSE LET s1 == [ St EXCEPT !.micStream = TRUE ]
                 IN  IF ~s1.audioContext THEN StartCatch(s1, "TypeError")
                     ELSE IF s1.systemDeviceId
                          THEN IF ~s1.audioMixerRef THEN StartCatch(s1, "TypeError")
                               ELSE [ s1 EXCEPT !.startPc = "sys" ]
                          ELSE AfterCapture(s1))

\* getUserMedia of the system device resolves or rejects
SysDone(ok) ==
  /\ ~Dispatching
  /\ startPc = "sys"
  /\ Commit(IF ~ok THEN StartCatch(St, "DeviceAcquisitionError")
            ELSE LET s1 == [ St EXCEPT !.systemStream = TRUE ]
                 IN  IF ~s1.audioContext THEN StartCatch(s1, "TypeError")
                     ELSE AfterCapture(s1))

\* a validation that only rejects absent keys
ValidateApiKeys_AcceptsPlaceholder(keys) ==
  IF keys.deepgramApiKey = "" THEN "Deepgram"
  ELSE IF keys.googleApiKey = "" THEN "Google"
  ELSE "ok"

\* validateApiKeys after the getApiKeys call: the service named by the
\* ApiKeyError it throws, "ok" when it returns the keys
ValidateApiKeys(keys) ==
  IF keys.deepgramApiKey = "" \/ keys.deepgramApiKey = DEFAULT_DEEPGRAM_API_KEY
  THEN "Deepgram"
  ELSE IF keys.googleApiKey = "" \/ keys.googleApiKey = DEFAULT_GOOGLE_API_KEY
  THEN "Google"
  ELSE "ok"

\* config:getApiKeys handler, then validateApiKeys, initializeServices,
\* setupCallbacks and connectAndStart up to the handshake
IpcKeys(keys) ==
  /\ ~Dispatching
  /\ ipcQ # <<>> /\ Head(ipcQ).op = "keys"
  /\ LET s0 == [ St EXCEPT !.ipcQ = Tail(@),
                           !.apiKeys = [ read |-> TRUE,
                                         deepgramApiKey |-> keys.deepgramApiKey,
                                         googleApiKey |-> keys.googleApiKey ] ]
         s1 == [ NewDeepgramClient(s0) EXCEPT !.translationServiceRef = TRUE,
                                              !.callbacks = TRUE ]
     IN  Commit(IF ValidateApiKeys(keys) # "ok" THEN StartCatch(s0, "ApiKeyError")
                ELSE IF ~s1.audioMixerRef
                     THEN StartCatch(s1, "ServiceInitializationError")
                     ELSE [ Connect(s1, "initial", DeepgramLanguage(s1.direction))
                              EXCEPT !.connTimeout = "armed", !.startPc = "connect" ])

\* the SERVICE_TIMEOUT_MS timeout of connectAndStart fires
ConnTimeoutFires ==
  /\ ~Dispatching
  /\ connTimeout = "armed"
  /\ LET s0 == [ St EXCEPT !.connTimeout = "fired" ]
     IN  Commit(IF startPc \in {"connect", "test"} THEN StartCatch(s0, "TIMEOUT") ELSE s0)

\* the settling delay elapses: connectAndStart up to testConnection()
DelayElapsed(codec) ==
  /\ ~Dispatching
  /\ startPc = "delay"
  /\ Commit(IF ~deepgramClientRef \/ ~audioMixerRef \/ ~translationServiceRef
            THEN [ St EXCEPT !.startPc = "done", !.startResult = "resolved" ]
            ELSE LET s1 == DgStartRecording(St)
                 IN  IF ~codec THEN StartCatch(s1, "UnsupportedCodecError")
                     ELSE LET s2 == [ s1 EXCEPT !.mediaRecorder = TRUE ]
                          IN  IF s2.connTimeout = "fired" THEN StartCatch(s2, "TIMEOUT")
                              ELSE [ s2 EXCEPT !.startPc = "test" ])

\* testConnection() resolves or rejects: end of startRecording
TestDone(ok) ==
  /\ ~Dispatching
  /\ startPc = "test"
  /\ Commit(IF ~ok THEN StartCatch(St, "TranslationError")
            ELSE [ St EXCEPT !.status = "LISTENING", !.recordingState = "recording",
                             !.startPc = "done", !.startResult = "resolved" ])

(* ---------------------------- stopRecording ---------------------------- *)
StopRecording ==
  /\ ~Dispatching
  /\ stopPc = "none"
  /\ recordingState \in {"initializing", "recording"}
  /\ Commit(StopRecordingCall(St))

\* files:closeTranscripts handler, then the rest of cleanup() and of its caller
IpcClose ==
  /\ ~Dispatching
  /\ ipcQ # <<>> /\ Head(ipcQ).op = "close"
  /\ LET r == Head(ipcQ)
         s0 == CleanupFinish([ St EXCEPT !.ipcQ = Tail(@), !.filesOpen = FALSE ])
     IN  Commit(IF r.who = "start" THEN StartRethrow(s0, r.arg)
                ELSE StopReturn(s0, r.arg))

(* ------------------------ per-utterance pipeline ----------------------- *)
\* TranslationService.getLanguageCodes
GetLanguageCodes(d) ==
  IF d = "en-es" THEN [ source |-> "en", target |-> "es" ]
  ELSE [ source |-> "es", target |-> "en" ]

\* window.electronAPI.appendToTranscript(file, text)
IssueAppend(s, i, file, text) ==
  [ s EXCEPT !.ipcQ = Append(@, IpcRequest("append", "utt", file, i, text)),
             !.appendsIssued = Append(@, [ file |-> file, text |-> text, utt |-> i ]) ]

\* translateForDirection resolves: onTranscript up to the first append
TranslateDone(i, t) ==
  /\ ~Dispatching
  /\ i \in 1..Len(utts)
  /\ utts[i].stage = "translating"
  /\ t \in Translations
  /\ Commit(IF t = <<>> THEN [ St EXCEPT !.utts[i].stage = "done" ]
            ELSE LET s1 == [ OnTranslationReceived(St, TranslationLine(t, utts[i].text))
                               EXCEPT !.hasTranscriptContentRef = TRUE,
                                      !.utts[i].translated = t ]
                 IN  IF ~s1.translationServiceRef
                     THEN [ OnTranscriptCatch(s1, utts[i].text, "TypeError")
                              EXCEPT !.utts[i].stage = "failed" ]
                     ELSE [ IssueAppend(s1, i, GetLanguageCodes(s1.direction).source,
                                        utts[i].text)
                              EXCEPT !.utts[i].stage = "appendSource" ])

\* translateForDirection rejects
TranslateFail(i) ==
  /\ ~Dispatching
  /\ i \in 1..Len(utts)
  /\ utts[i].stage = "translating"
  /\ Commit([ OnTranscriptCatch(St, utts[i].text, "TranslationError")
                EXCEPT !.utts[i].stage = "failed" ])

\* files:appendTranscript handler, then the rest of onTranscript
IpcAppend ==
  /\ ~Dispatching
  /\ ipcQ # <<>> /\ Head(ipcQ).op = "append"
  /\ LET r == Head(ipcQ)
         i == r.utt
         s0 == [ St EXCEPT !.ipcQ = Tail(@),
                           !.fileEn = IF r.arg = "en" /\ filesOpen
                                      THEN Append(@, r.text) ELSE @,
                           !.fileEs = IF r.arg # "en" /\ filesOpen
                                      THEN Append(@, r.text) ELSE @ ]
     IN  Commit(IF utts[i].stage = "appendSource"
                THEN [ IssueAppend(s0, i, GetLanguageCodes(s0.direction).target,
                                   utts[i].translated)
                         EXCEPT !.utts[i].stage = "appendTarget" ]
                ELSE [ s0 EXCEPT !.utts[i].stage = "done" ])

(* -------------------------- TranslationService ------------------------- *)
\* translateText up to the fetch call
TranslateText(s, text, sourceLanguage, targetLanguage) ==
  LET clean == Trim(CollapseWhitespace(text))
  IN  IF clean = <<>>
      THEN [ s EXCEPT !.translateCall =
                        [ pc |-> "done", text |-> text, kind |-> "return", value |-> <<>> ] ]
      ELSE [ s EXCEPT !.fetches = Append(@, [ q |-> clean, source |-> sourceLanguage,
                                              target |-> targetLanguage ]),
                      !.translateCall =
                        [ pc |-> "fetch", text |-> text, kind |-> "none", value |-> <<>> ] ]

\* translateForDirection
TranslateForDirection(s, text, d) ==
  TranslateText(s, text, GetLanguageCodes(d).source, GetLanguageCodes(d).target)

\* a call of translateForDirection with the session's direction
TranslateCall(text) ==
  /\ translateCall.pc = "none"
  /\ Commit(TranslateForDirection(St, text, direction))

\* the fetch settles: translateText from the response to its return or throw
FetchSettles(outcome, t) ==
  /\ translateCall.pc = "fetch"
  /\ Commit([ St EXCEPT !.translateCall =
                 IF outcome = "ok"
                 THEN [ @ EXCEPT !.pc = "done", !.kind = "return", !.value = t ]
                 ELSE [ @ EXCEPT !.pc = "done", !.kind = "throw" ] ])

(* ------------------------------- display ------------------------------- *)
DisplayLines ==
  { TranslationLine(<<"x">>, <<"a">>), TranslationLine(<<"y">>, <<"b">>),
    ErrorLine(<<"a">>) }

\* a line is delivered to the UI
DeliverLine(line) ==
  /\ Len(uiLines) < MaxLines
  /\ Commit(OnTranslationReceived(St, line))

(* --------------------------- specifications ---------------------------- *)
\* bound on finality-flagged Results messages in the controller specification
(* --------------------- AudioMixer driven by its methods ---------------- *)
MixerInitializeCall(suspended) ==
  /\ mixerCalls.initPc = "none"
  /\ Commit(AudioMixerInitialize(St, suspended))

\* audioContext.resume() resolves
MixerResumed ==
  /\ mixerCalls.initPc = "resume"
  /\ Commit(AudioMixerInitializeRest([ St EXCEPT !.mixerCalls.initPc = "none" ]))

MixerConnectMicrophone ==
  /\ mixerCalls.micPc = "none"
  /\ Commit(ConnectMicrophoneStream(St))

\* getUserMedia of the microphone settles
MixerMicrophoneSettles(ok) ==
  /\ mixerCalls.micPc = "getUserMedia"
  /\ Commit(ConnectMicrophoneStreamRest(St, ok))

MixerConnectSystem ==
  /\ mixerCalls.sysPc = "none"
  /\ Commit(ConnectSystemStream(St))

\* getUserMedia of the system audio device settles
MixerSystemSettles(ok) ==
  /\ mixerCalls.sysPc = "getUserMedia"
  /\ Commit(ConnectSystemStreamRest(St, ok))

MixerGetMixedStream == Commit(GetMixedStream(St))

MixerSetupStreaming(codec) == Commit(SetupDeepgramStreaming(St, codec))

\* the recorder reports an error and stops (mediaRecorder.onerror logs it)
MixerRecorderError ==
  /\ mixer.mediaRecorder = "recording"
  /\ Commit([ St EXCEPT !.mixer.mediaRecorder = "inactive" ])

MixerCleanupCall ==
  /\ mixerCalls.last.op = "cleanup" => mixerCalls.consecutive < MaxCleanups
  /\ Commit(AudioMixerCleanupCall(St))

MaxCtlFrags == 2

Init ==
  /\ socket = 0 /\ isConnected = FALSE /\ isRecording = FALSE
  /\ reconnectAttempts = 0 /\ reconnectDelay = BaseReconnectDelay
  /\ pendingUtterance = <<>> /\ flushTimer = 0 /\ callbacks = FALSE
  /\ socks = <<>> /\ timeouts = {} /\ reconnectTimers = <<>>
  /\ audioContext = FALSE /\ micStream = FALSE /\ systemStream = FALSE
  /\ mixedStream = FALSE /\ mediaRecorder = FALSE
  /\ recordingState = "idle" /\ error = "null" /\ status = "READY"
  /\ isStoppingRef = FALSE /\ hasTranscriptContentRef = FALSE
  /\ audioMixerRef = FALSE /\ deepgramClientRef = FALSE
  /\ translationServiceRef = FALSE
  /\ startPc = "none" /\ startResult = "none"
  /\ stopPc = "none" /\ stopResult = "none" /\ stoppedAt = "none"
  /\ connTimeout = "none"
  /\ direction \in Directions /\ systemDeviceId \in BOOLEAN
  /\ filesOpen = FALSE /\ fileEn = <<>> /\ fileEs = <<>> /\ ipcQ = <<>>
  /\ filesExist = FALSE /\ orphanedMixers = 0
  /\ utts = <<>> /\ uiLines = <<>> /\ appendsIssued = <<>>
  /\ emitted = <<>> /\ frags = <<>> /\ lastFlush = NoFlush /\ owed = <<>>
  /\ terminalError = FALSE /\ resumedAfterTerminal = FALSE
  /\ nFrags = 0 /\ nOpens = 0 /\ quietExpiries = 0
  /\ chunks = <<>>
  /\ audioSent = <<>>
  /\ nChunks = 0
  /\ audioDropped = <<>>
  /\ outputFolder \in OutputFolders
  /\ sessionName \in SessionNames
  /\ apiKeys = NoApiKeys
  /\ nSessions = 0
  /\ translateCall = NoTranslateCall
  /\ fetches = <<>>
  /\ translationLines = <<>>
  /\ lastClose = NoClose
  /\ attemptCalls = 0
  /\ filesOf = 0
  /\ mixer = NullMixer
  /\ mixerCalls = NoMixerCalls

Next ==
  \/ \E valid \in {ValidateRecordingSetup(outputFolder, sessionName)} :
        StartRecording(valid)
  \/ \E ok \in BOOLEAN : IpcCreate(ok)
  \/ \E ok \in BOOLEAN : MixerInitDone(ok)
  \/ \E ok \in BOOLEAN : MicDone(ok)
  \/ \E ok \in BOOLEAN : SysDone(ok)
  \/ \E keys \in ApiKeys : IpcKeys(keys)
  \/ ConnTimeoutFires
  \/ \E codec \in BOOLEAN : DelayElapsed(codec)
  \/ \E ok \in BOOLEAN : TestDone(ok)
  \/ StopRecording
  \/ \E k \in 1..Len(socks) : SocketOpen(k)
  \/ \E k \in 1..Len(socks) : SocketFail(k)
  \/ \E k \in 1..Len(socks), code \in {NormalClosure, AbnormalClosure, 1011} :
        SocketClose(k, code)
  \/ \E i \in 1..Len(reconnectTimers) : ReconnectTimerFires(i)

\* the controller's lifecycle and the recognition connection
Spec == Init /\ [][Next]_vars

\* connection attempts end, timers fire and dispatched events are delivered
Fairness ==
  /\ WF_vars(\E i \in 1..Len(reconnectTimers) : ReconnectTimerFires(i))
  /\ WF_vars(\E k \in 1..Len(socks) : SocketOpen(k) \/ SocketFail(k))
  /\ WF_vars(\E k \in 1..Len(socks) : SocketClose(k, AbnormalClosure))

SpecLive == Spec /\ Fairness

\* a session that startRecording has brought to `recording`
InitRec ==
  /\ socket = 1 /\ isConnected = TRUE /\ isRecording = TRUE
  /\ reconnectAttempts = 0 /\ reconnectDelay = BaseReconnectDelay
  /\ pendingUtterance = <<>> /\ flushTimer = 0 /\ callbacks = TRUE
  /\ direction \in Directions /\ systemDeviceId = FALSE
  /\ socks = << [ state |-> "open", kind |-> "initial",
                  language |-> DeepgramLanguage(direction) ] >>
  /\ timeouts = {} /\ reconnectTimers = <<>>
  /\ audioContext = TRUE /\ micStream = TRUE /\ systemStream = FALSE
  /\ mixedStream = TRUE /\ mediaRecorder = TRUE
  /\ recordingState = "recording" /\ error = "null" /\ status = "LISTENING"
  /\ isStoppingRef = FALSE /\ hasTranscriptContentRef = FALSE
  /\ audioMixerRef = TRUE /\ deepgramClientRef = TRUE
  /\ translationServiceRef = TRUE
  /\ startPc = "done" /\ startResult = "resolved"
  /\ stopPc = "none" /\ stopResult = "none" /\ stoppedAt = "none"
  /\ connTimeout = "fired"
  /\ filesOpen = TRUE /\ fileEn = <<>> /\ fileEs = <<>> /\ ipcQ = <<>>
  /\ filesExist = TRUE /\ orphanedMixers = 0
  /\ utts = <<>> /\ uiLines = <<>> /\ appendsIssued = <<>>
  /\ emitted = <<>> /\ frags = <<>> /\ lastFlush = NoFlush /\ owed = <<>>
  /\ terminalError = FALSE /\ resumedAfterTerminal = FALSE
  /\ nFrags = 0 /\ nOpens = 1 /\ quietExpiries = 0
  /\ chunks = <<>>
  /\ audioSent = <<>>
  /\ nChunks = 0
  /\ audioDropped = <<>>
  /\ outputFolder = "out"
  /\ sessionName = "session"
  /\ apiKeys = SessionApiKeys
  /\ nSessions = 1
  /\ translateCall = NoTranslateCall
  /\ fetches = <<>>
  /\ translationLines = <<>>
  /\ lastClose = NoClose
  /\ attemptCalls = 0
  /\ filesOf = 1
  /\ mixer = NullMixer
  /\ mixerCalls = NoMixerCalls

\* the Segmenter of a recording session: messages, quiet timer, stop, closure
NextSeg ==
  \/ \E k \in 1..Len(socks), m \in Messages(SegTranscripts) :
        RecvMessage(k, m, MaxFrags)
  \/ \E h \in timeouts : QuietTimerExpiry(h)
  \/ StopRecording
  \/ \E k \in 1..Len(socks), code \in {NormalClosure, AbnormalClosure, 1011} :
        SocketClose(k, code)

SpecSeg == InitRec /\ [][NextSeg]_vars

\* QuietTimerExpiry seen through the count of expiries, which no other action
\* changes: enabled when a timeout is live, taken when a timeout fires
QuietTimerFires ==
  /\ ~Dispatching
  /\ timeouts # {}
  /\ quietExpiries' = quietExpiries + 1

\* a timeout that stays live fires
SpecSegLive == SpecSeg /\ WF_quietExpiries(QuietTimerFires)

\* the per-utterance pipeline of a recording session
NextPipe ==
  \/ \E k \in 1..Len(socks), m \in Messages(CtlTranscripts) :
        RecvMessage(k, m, MaxCtlFrags)
  \/ \E h \in timeouts : QuietTimerExpiry(h)
  \/ \E i \in 1..Len(utts), t \in Translations : TranslateDone(i, t)
  \/ \E i \in 1..Len(utts) : TranslateFail(i)
  \/ IpcAppend
  \/ StopRecording
  \/ IpcClose

SpecPipe == InitRec /\ [][NextPipe]_vars

\* a second startRecording call during a recording session
NextReentry ==
  \/ StartRecordingAgain
  \/ \E ok \in BOOLEAN : IpcCreate(ok)
  \/ \E ok \in BOOLEAN : MixerInitDone(ok)
  \/ \E ok \in BOOLEAN : MicDone(ok)
  \/ \E keys \in ApiKeys : IpcKeys(keys)
  \/ ConnTimeoutFires
  \/ \E codec \in BOOLEAN : DelayElapsed(codec)
  \/ \E ok \in BOOLEAN : TestDone(ok)
  \/ StopRecording
  \/ \E k \in 1..Len(socks) : SocketOpen(k)
  \/ \E k \in 1..Len(socks) : SocketFail(k)
  \/ \E k \in 1..Len(socks), code \in {NormalClosure, AbnormalClosure, 1011} :
        SocketClose(k, code)
  \/ \E i \in 1..Len(reconnectTimers) : ReconnectTimerFires(i)

SpecReentry == InitRec /\ [][NextReentry]_vars

\* the audio path of a recording session across disconnections
NextAudio ==
  \/ \E size \in {0, 1} : DataAvailable(size)
  \/ \E i \in 1..Len(chunks) : ChunkConverted(i)
  \/ StopRecording
  \/ \E k \in 1..Len(socks) : SocketOpen(k)
  \/ \E k \in 1..Len(socks) : SocketFail(k)
  \/ \E k \in 1..Len(socks), code \in {NormalClosure, AbnormalClosure, 1011} :
        SocketClose(k, code)
  \/ \E i \in 1..Len(reconnectTimers) : ReconnectTimerFires(i)

SpecAudio == InitRec /\ [][NextAudio]_vars

\* sessions one after the other: the pipeline of a session, its stop, and the
\* start of the next session
NextRestart ==
  \/ \E k \in 1..Len(socks), m \in Messages(CtlTranscripts) :
        RecvMessage(k, m, MaxCtlFrags)
  \/ \E i \in 1..Len(utts), t \in Translations : TranslateDone(i, t)
  \/ \E i \in 1..Len(utts) : TranslateFail(i)
  \/ IpcAppend
  \/ StopRecording
  \/ IpcClose
  \/ StartRecordingAfterStop
  \/ \E ok \in BOOLEAN : IpcCreate(ok)
  \/ \E ok \in BOOLEAN : MixerInitDone(ok)
  \/ \E ok \in BOOLEAN : MicDone(ok)
  \/ \E keys \in ApiKeys : IpcKeys(keys)
  \/ \E k \in 1..Len(socks) : SocketOpen(k)
  \/ \E codec \in BOOLEAN : DelayElapsed(codec)
  \/ \E ok \in BOOLEAN : TestDone(ok)

SpecRestart == InitRec /\ [][NextRestart]_vars

\* one translateForDirection call on every text of the bounded set
NextTranslate ==
  \/ \E text \in TextsUpTo(MaxTextLen) : TranslateCall(text)
  \/ \E outcome \in {"ok", "http_error", "bad_format", "network_error"},
        t \in Translations : FetchSettles(outcome, t)

SpecTranslate == Init /\ [][NextTranslate]_vars

\* the display under any sequence of delivered lines
NextDisplay == \E line \in DisplayLines : DeliverLine(line)

SpecDisplay == Init /\ [][NextDisplay]_vars

\* an AudioMixer whose methods are called in any order
NextMixer ==
  \/ \E suspended \in BOOLEAN : MixerInitializeCall(suspended)
  \/ MixerResumed
  \/ MixerConnectMicrophone
  \/ \E ok \in BOOLEAN : MixerMicrophoneSettles(ok)
  \/ MixerConnectSystem
  \/ \E ok \in BOOLEAN : MixerSystemSettles(ok)
  \/ MixerGetMixedStream
  \/ \E codec \in BOOLEAN : MixerSetupStreaming(codec)
  \/ MixerRecorderError
  \/ MixerCleanupCall

\* the options of the session play no part in the mixer
InitMixer ==
  /\ Init
  /\ direction = "en-es" /\ systemDeviceId
  /\ outputFolder = "out" /\ sessionName = "session"

SpecMixer == InitMixer /\ [][NextMixer]_vars

\* InitRec is a state of Spec (TLC refutes this invariant of Spec)
NotRecordingSession ==
  ~ ( /\ recordingState = "recording" /\ startResult = "resolved"
      /\ connTimeout = "fired" /\ isRecording /\ isConnected
      /\ socket = 1 /\ socks[1].state = "open" /\ Len(socks) = 1
      /\ mediaRecorder /\ micStream /\ mixedStream /\ audioContext
      /\ audioMixerRef /\ deepgramClientRef /\ translationServiceRef
      /\ callbacks /\ filesOpen /\ stopPc = "none" /\ status = "LISTENING"
      /\ error = "null" /\ reconnectTimers = <<>> /\ ~systemDeviceId
      /\ reconnectAttempts = 0 /\ reconnectDelay = BaseReconnectDelay
      /\ nOpens = 1 /\ ipcQ = <<>> /\ ~isStoppingRef
      /\ filesExist /\ orphanedMixers = 0
      /\ outputFolder = "out" /\ sessionName = "session"
      /\ apiKeys = SessionApiKeys /\ nSessions = 1
      /\ chunks = <<>> /\ audioSent = <<>> /\ audioDropped = <<>> /\ nChunks = 0 )


(* ------------------------------- claims -------------------------------- *)
\* the non-empty trimmed texts of a sequence of fragments
Pieces(fs) == NonEmpty(TrimAll(fs))

\* C1 as stated: every non-empty sequence of finality-flagged fragments
\* followed by an UtteranceEnd yields exactly one callback invocation, whose
\* text is the fragments' trimmed texts joined by single spaces.
C1_AnyFragmentsEmitOnce ==
  (lastFlush.trigger = "boundary" /\ lastFlush.frags # <<>>)
    => (lastFlush.n = 1 /\ lastFlush.text = JoinSp(TrimAll(lastFlush.frags)))

\* C1 amended: when at least one of the finality-flagged fragments received
\* since the accumulator was last flushed has a non-empty trimmed text, the
\* UtteranceEnd yields exactly one callback invocation, whose text is the
\* non-empty trimmed texts joined by single spaces in arrival order.
C1_BoundaryFlush ==
  (lastFlush.trigger = "boundary" /\ Pieces(lastFlush.frags) # <<>>)
    => (lastFlush.n = 1 /\ lastFlush.text = JoinSp(Pieces(lastFlush.frags)))

C1_Witness ==
  /\ lastFlush.trigger = "boundary"
  /\ lastFlush.frags = << <<" ", "a">>, <<" ">>, <<"b", " ">> >>
  /\ lastFlush.n = 1
  /\ lastFlush.text = <<"a", " ", "b">>

\* C2: a quiet-timer expiry after accumulated fragments yields exactly one
\* utterance with their space-joined text; afterwards nothing is pending and
\* no timeout is live, and no utterance is emitted while no new finality-
\* flagged fragment has arrived since the last flush.
C2_TimerFlushState ==
  /\ (lastFlush.trigger = "timer" /\ Pieces(lastFlush.frags) # <<>>)
       => (lastFlush.n = 1 /\ lastFlush.text = JoinSp(Pieces(lastFlush.frags)))
  /\ (lastFlush.trigger = "timer" /\ frags = <<>>)
       => (pendingUtterance = <<>> /\ timeouts = {} /\ flushTimer = 0)

C2_TimerFlushOnce ==
  [](C2_TimerFlushState) /\ [][frags = <<>> => emitted' = emitted]_vars

C2_Witness ==
  /\ lastFlush.trigger = "timer"
  /\ lastFlush.frags = << <<"a">>, <<"b">> >>
  /\ emitted = << <<"a", " ", "b">> >>
  /\ timeouts = {}

\* C3: a flush of an empty accumulator invokes no callback, and no emitted
\* utterance has an empty or whitespace-only text.
C3_NoEmptyUtterance ==
  /\ \A i \in 1..Len(emitted) : Trim(emitted[i]) # <<>>
  /\ (lastFlush.trigger # "none" /\ lastFlush.pending = <<>>) => lastFlush.n = 0

C3_Witness ==
  /\ lastFlush.trigger = "timer"
  /\ lastFlush.pending = <<>>
  /\ lastFlush.frags = << <<" ">> >>
  /\ emitted = <<>>

\* C4: every accumulated fragment is eventually part of an utterance handed
\* to the transcript callback (owed holds the accumulated texts that no
\* callback invocation has carried yet).
C4_NoTextLost == (owed # <<>>) ~> (owed = <<>>)

\* text accumulated before stop() is delivered by the quiet timer after it
C4_Witness ==
  /\ stopPc = "done"
  /\ lastFlush.trigger = "timer"
  /\ lastFlush.n = 1
  /\ owed = <<>>
  /\ Len(uiLines) = 1 /\ uiLines[1].kind = "error"


\* places where startRecording is suspended on an asynchronous operation
SuspensionPoints ==
  {"createFiles", "mixerInit", "mic", "sys", "keys", "connect", "delay", "test"}

Range(q) == { q[i] : i \in 1..Len(q) }

\* C5: the close event of the socket that a user-initiated stop of an active
\* recording closed changes neither the status (no ERROR) nor the error field.
C5_StopNotReportedAsError ==
  [][ ( /\ stoppedAt = "done"
        /\ \E k \in 1..Len(socks) :
              socks[k].state = "closing" /\ socks'[k].state = "closed" )
      => (status' = status /\ error' = error) ]_vars

\* C6: when stopRecording ran while startRecording was suspended and both
\* calls have returned, nothing is leaked and the state is idle.
C6_NoLeakAfterCancel ==
  (stoppedAt \in SuspensionPoints /\ startPc = "done" /\ stopPc = "done")
    => /\ ~micStream /\ ~systemStream /\ ~mediaRecorder
       /\ \A k \in 1..Len(socks) : socks[k].state \notin {"connecting", "open"}
       /\ ~audioMixerRef /\ ~deepgramClientRef
       /\ recordingState = "idle"

\* rejections of startRecording that an awaited operation's own failure causes
OperationFailures ==
  {"FILE_CREATION_ERROR", "AudioInitError", "DeviceAcquisitionError", "ApiKeyError",
   "TIMEOUT", "UnsupportedCodecError", "TranslationError"}

\* C7: when stopRecording ran while startRecording was suspended and none of
\* the operations startRecording awaited failed by itself, startRecording
\* does not reject (its catch block, which emits ERROR and sets the error
\* field, does not run).
C7_CancelIsQuiet ==
  (stoppedAt \in SuspensionPoints /\ startPc = "done"
      /\ startResult \notin OperationFailures)
    => startResult = "resolved"

\* C8: once the terminal 'Failed to reconnect' error has been reported no
\* back-off timer is pending, connect() is not called again and neither
\* 'reconnecting' nor 'connected' is emitted.
C8_TerminalErrorIsFinal ==
  terminalError => (reconnectTimers = <<>> /\ ~resumedAfterTerminal)

\* C9: a session that is RECONNECTING eventually is LISTENING or in terminal
\* ERROR, and the terminal ERROR status of a started session stays.
C9_Recovery ==
  /\ (status = "RECONNECTING")
        ~> (status = "LISTENING" \/ (terminalError /\ status = "ERROR"))
  /\ [][ (terminalError /\ status = "ERROR" /\ startPc = "done")
           => status' = "ERROR" ]_vars

\* C10: while the session has not been stopped, a failed translation leaves
\* an error line for its utterance, the state stays `recording` with every
\* resource held, and every utterance translated to a non-empty text has its
\* line delivered and its source and target appends issued and written.
Translated(i) ==
  utts[i].stage \in {"appendSource", "appendTarget", "done"} /\ utts[i].translated # <<>>

C10_FailedTranslationIsolated ==
  stopPc = "none" =>
    /\ recordingState = "recording"
    /\ audioMixerRef /\ deepgramClientRef /\ translationServiceRef
    /\ micStream /\ mediaRecorder /\ audioContext /\ isConnected /\ filesOpen
    /\ \A i \in 1..Len(utts) :
         /\ utts[i].stage = "failed" => ErrorLine(utts[i].text) \in Range(uiLines)
         /\ Translated(i) =>
              LET c == GetLanguageCodes(direction)
                  src == IF c.source = "en" THEN fileEn ELSE fileEs
                  tgt == IF c.target = "en" THEN fileEn ELSE fileEs
              IN  /\ TranslationLine(utts[i].translated, utts[i].text) \in Range(uiLines)
                  /\ [ file |-> c.source, text |-> utts[i].text, utt |-> i ]
                        \in Range(appendsIssued)
                  /\ utts[i].stage # "appendSource" =>
                       /\ [ file |-> c.target, text |-> utts[i].translated, utt |-> i ]
                             \in Range(appendsIssued)
                       /\ utts[i].text \in Range(src)
                  /\ utts[i].stage = "done" => utts[i].translated \in Range(tgt)

C10_Witness ==
  /\ stopPc = "none"
  /\ Len(utts) = 2
  /\ utts[1].stage = "failed"
  /\ utts[2].stage = "done" /\ utts[2].translated # <<>>
  /\ Len(uiLines) = 2 /\ uiLines[1].kind = "error" /\ uiLines[2].kind = "line"

\* C11: after a session that started successfully and translated no utterance
\* has been stopped, neither transcript file exists.
C11_NoEmptyArtifacts ==
  ( /\ startResult = "resolved" /\ stoppedAt = "done" /\ stopPc = "done"
    /\ \A i \in 1..Len(utts) : utts[i].translated = <<>> )
    => ~filesExist

\* utterances that went through the whole pipeline with a non-empty translation
Processed == { i \in 1..Len(utts) : utts[i].stage = "done" /\ utts[i].translated # <<>> }

\* C12: when stopRecording has returned, no pipeline instance or request is
\* in flight and k >= 1 utterances were processed, both files exist and each
\* holds exactly k lines.
C12_TwoFilesKLines ==
  ( /\ stopPc = "done" /\ ipcQ = <<>>
    /\ \A i \in 1..Len(utts) : utts[i].stage \in {"done", "failed"}
    /\ Processed # {} )
    => /\ filesExist
       /\ Len(fileEn) = Cardinality(Processed)
       /\ Len(fileEs) = Cardinality(Processed)

\* C13: the file-append calls are issued in the order in which the Segmenter
\* emitted their utterances.
C13_IssueOrderIsEmissionOrder ==
  \A i, j \in 1..Len(appendsIssued) :
     i < j => appendsIssued[i].utt <= appendsIssued[j].utt

\* C14: no AudioMixer with live tracks and no live recognition socket is ever
\* left behind by the construction of a second mixer or a second client.
C14_SingleSession ==
  /\ orphanedMixers = 0
  /\ \A k \in 1..Len(socks) : socks[k].state # "orphaned"

\* every resource a session acquires has been released
SessionReleased ==
  /\ ~micStream /\ ~systemStream /\ ~mediaRecorder
  /\ \A k \in 1..Len(socks) : socks[k].state \in {"closed", "closing"}
  /\ timeouts = {} /\ reconnectTimers = <<>>
  /\ ~filesOpen

\* C15: when stopRecording takes the state of a started session from
\* recording (via stopping) to idle, every resource has been released.
C15_ReleasedBeforeIdle ==
  [][ ( /\ recordingState \in {"recording", "stopping"}
        /\ startResult = "resolved"
        /\ stopPc # "done" /\ stopPc' = "done" /\ stoppedAt' = "done"
        /\ recordingState' = "idle" )
      => SessionReleased' ]_vars

\* nothing that startRecording initialises is alive and the state is idle
StartFailureClean ==
  /\ recordingState = "idle"
  /\ ~micStream /\ ~systemStream /\ ~mediaRecorder
  /\ \A k \in 1..Len(socks) : socks[k].state \notin {"connecting", "open"}
  /\ ~filesOpen

\* C16: at the moment startRecording rejects because one of its steps failed
\* (no stop involved), the state is idle and nothing partially initialised
\* is alive.
C16_FailedStartCleansUp ==
  [][ ( /\ startPc # "done" /\ startPc' = "done"
        /\ startResult' # "resolved" /\ stoppedAt' = "none" )
      => StartFailureClean' ]_vars

\* C17: when the reachability check of startRecording fails or times out,
\* the state has not taken the value recording and status LISTENING has not
\* been emitted in that execution.
C17_NoRecordingBeforeReachability ==
  [][ ( /\ startPc = "test" /\ startPc' # "test"
        /\ startResult' \in {"TranslationError", "TIMEOUT"} )
      => (recordingState # "recording" /\ status # "LISTENING") ]_vars

\* the positions of x in the sequence q
Occurrences(q, x) == { j \in 1..Len(q) : q[j] = x }

\* C18: for every utterance whose translation succeeded with a non-empty
\* text and whose pipeline instance has ended, exactly one append of the
\* source text to the source-language file and exactly one append of the
\* translation to the target-language file have been issued, and the UI has
\* received one Translation Line per such utterance.
C18_PipelinePerUtterance ==
  LET c == GetLanguageCodes(direction)
      ended == { i \in 1..Len(utts) :
                   utts[i].translated # <<>> /\ utts[i].stage \in {"done", "failed"} }
  IN  /\ \A i \in ended :
           /\ Cardinality(Occurrences(appendsIssued,
                 [ file |-> c.source, text |-> utts[i].text, utt |-> i ])) = 1
           /\ Cardinality(Occurrences(appendsIssued,
                 [ file |-> c.target, text |-> utts[i].translated, utt |-> i ])) = 1
      /\ \A i \in ended :
           Cardinality(Occurrences(uiLines,
                 TranslationLine(utts[i].translated, utts[i].text)))
             >= Cardinality({ k \in ended : utts[k].text = utts[i].text
                                           /\ utts[k].translated = utts[i].translated })

\* stop() has been called on the client that setupCallbacks registered
\* callbacks on (cleanup drops the reference right after calling it)
ClientStopped == callbacks /\ ~deepgramClientRef

\* C19: after stop() the client opens no new WebSocket, no handshake of its
\* sockets completes into a 'connected' callback, and no reconnection attempt
\* ('reconnecting' callback) is started.
C19_StoppedIsTerminal ==
  [][ ClientStopped
      => /\ Len(socks') = Len(socks)
         /\ \A k \in 1..Len(socks) :
              ~(socks[k].state = "connecting" /\ socks'[k].state = "open")
         /\ reconnectAttempts' <= reconnectAttempts ]_vars

\* reconnection attempts that have been made and have failed
FailedReconnects ==
  { k \in 1..Len(socks) : socks[k].kind = "reconnect" /\ socks[k].state = "closed" }

\* C20: the terminal error is reported only when at least N = 2 automatic
\* connection attempts have been made and have failed.
C20_TerminalAfterBudget ==
  [][ (~terminalError /\ terminalError')
      => Cardinality(FailedReconnects') >= maxReconnectAttempts ]_vars

\* the fields of the DeepgramClient
SegmenterFields ==
  << socket, isConnected, isRecording, reconnectAttempts, reconnectDelay,
     pendingUtterance, flushTimer, callbacks, socks, timeouts, reconnectTimers >>

C21_AudioState ==
  /\ \A i \in 1..Len(audioSent) :
       /\ audioSent[i].connected
       /\ audioSent[i].chunk.connected
  /\ \A i \in 1..Len(chunks) : chunks[i].connected
  /\ \A i \in 1..Len(audioDropped) :
       audioDropped[i].chunk \notin { audioSent[j].chunk : j \in 1..Len(audioSent) }

\* C21: a chunk is written to the socket only while the Segmenter is
\* connected; a chunk the encoder produced while it was disconnected is
\* neither held nor written later, also not after a reconnection; a sendAudio
\* call made while not connected changes no field of the Segmenter and writes
\* nothing.
C21_NoAudioWhileDisconnected ==
  /\ [](C21_AudioState)
  /\ [][ (Len(chunks') < Len(chunks) /\ ~(socket # 0 /\ isConnected))
           => (SegmenterFields' = SegmenterFields /\ audioSent' = audioSent) ]_vars

\* a chunk produced during an outage was skipped, one produced and converted
\* during the outage's start was refused by sendAudio, and a chunk produced
\* after the reconnection went out on the new socket
C21_Witness ==
  /\ \E i \in 1..Len(audioDropped) :
        /\ audioDropped[i].at = "ondataavailable"
        /\ audioDropped[i].chunk.size > 0 /\ ~audioDropped[i].chunk.connected
  /\ \E i \in 1..Len(audioSent) : audioSent[i].sock = 2
  /\ chunks = <<>>

\* C22: a startRecording call made with outputFolder or sessionName unset
\* rejects with ValidationError and leaves the state idle; during the call no
\* request goes to the main process (no file is created or truncated, no
\* credential is read), no capture stream is acquired and no socket is
\* created.
C22_ValidationRejectsFirst ==
  [][ (startPc = "none" /\ startPc' # "none"
         /\ (outputFolder = "" \/ sessionName = ""))
      => /\ startPc' = "done" /\ startResult' = "ValidationError"
         /\ recordingState' = "idle"
         /\ ipcQ' = ipcQ
         /\ filesExist' = filesExist /\ filesOpen' = filesOpen
         /\ fileEn' = fileEn /\ fileEs' = fileEs
         /\ ~micStream' /\ ~systemStream' /\ ~audioMixerRef'
         /\ socks' = socks /\ ~deepgramClientRef' ]_vars

C22_Witness ==
  /\ outputFolder = "out" /\ sessionName = ""
  /\ startPc = "done" /\ startResult = "ValidationError"
  /\ recordingState = "idle" /\ status = "ERROR"
  /\ ~filesExist /\ socks = <<>>

\* a credential that is absent or equal to the given placeholder
Unconfigured(key, placeholder) == key = "" \/ key = placeholder

\* C23: when getApiKeys returns a recognition or translation credential that
\* is absent or is its placeholder, startRecording rejects with ApiKeyError,
\* with the same resulting state in both cases; no client or translation
\* service is constructed, no socket is created, no translation request is
\* made, and the state is not `recording` then or later.
C23_CredentialError ==
  /\ [][ ( /\ startPc = "keys" /\ startPc' # "keys"
           /\ \/ Unconfigured(apiKeys'.deepgramApiKey, DEFAULT_DEEPGRAM_API_KEY)
              \/ Unconfigured(apiKeys'.googleApiKey, DEFAULT_GOOGLE_API_KEY) )
         => /\ startPc' = "done" /\ startResult' = "ApiKeyError"
            /\ status' = "ERROR"
            /\ recordingState' = "idle"
            /\ socks' = socks /\ utts' = utts
            /\ ~deepgramClientRef' /\ ~translationServiceRef' ]_vars
  /\ [](startResult = "ApiKeyError"
          => /\ recordingState # "recording" /\ startPc = "done"
             /\ socks = <<>> /\ utts = <<>> /\ ~translationServiceRef)

\* the translation credential is the placeholder, the recognition one is set
C23_Witness ==
  /\ apiKeys.read
  /\ apiKeys.deepgramApiKey = "deepgram-key"
  /\ apiKeys.googleApiKey = DEFAULT_GOOGLE_API_KEY
  /\ startResult = "ApiKeyError" /\ recordingState = "idle"
  /\ micStream = FALSE /\ socks = <<>>

\* C24: once stopRecording has returned both sink streams are closed, and
\* nothing is written to either file after that point.
C24_ClosedAtSessionEnd ==
  /\ [](stopPc = "done" => ~filesOpen)
  /\ [][ stopPc = "done" => (fileEn' = fileEn /\ fileEs' = fileEs) ]_vars

\* the value the stopRecording call in progress or last returned will return
HadContent ==
  IF stopPc = "done" THEN stopResult
  ELSE IF stopPc = "cleanup" THEN ipcQ[Len(ipcQ)].arg
  ELSE "none"

\* C25: the has-any-content flag is false when a startRecording call begins,
\* whatever happened before; and the stopRecording of the first session
\* returns true, and asks for the transcript files to be closed, exactly when
\* an utterance of the session has been translated to a non-empty text.
C25_ContentFlagPerSession ==
  /\ [][ (startPc = "done" /\ startPc' # "done") => ~hasTranscriptContentRef' ]_vars
  /\ [][ (stopPc = "none" /\ stopPc' # "none" /\ nSessions = 1)
         => LET translated == \E i \in 1..Len(utts) : utts[i].translated # <<>>
            IN  /\ HadContent' = "true" <=> translated
                /\ stopPc' = "cleanup" <=> translated ]_vars

\* the maximal whitespace-free pieces of a text, in order
RECURSIVE Words(_)
Words(t) ==
  IF t = <<>> THEN <<>>
  ELSE IF Head(t) \in Whitespace THEN Words(Tail(t))
  ELSE LET rest == Words(Tail(t))
       IN  IF Len(t) > 1 /\ t[2] \notin Whitespace
           THEN << <<Head(t)>> \o Head(rest) >> \o Tail(rest)
           ELSE << <<Head(t)>> >> \o rest

\* C26: a translateForDirection call on an empty or whitespace-only text
\* returns the empty text and sends no request; on any other text exactly one
\* request is sent, and it carries the text's words joined by single spaces.
C26_BlankInputNoRequest ==
  translateCall.pc # "none" =>
    IF \A i \in 1..Len(translateCall.text) : translateCall.text[i] \in Whitespace
    THEN /\ fetches = <<>>
         /\ translateCall.pc = "done"
         /\ translateCall.kind = "return" /\ translateCall.value = <<>>
    ELSE /\ Len(fetches) = 1
         /\ fetches[1].q = JoinSp(Words(translateCall.text))
         /\ fetches[1].source = GetLanguageCodes(direction).source
         /\ fetches[1].target = GetLanguageCodes(direction).target

C26_Witness ==
  /\ translateCall.text = <<"a", "\t", " ", "a">>
  /\ translateCall.pc = "done" /\ translateCall.kind = "return"
  /\ fetches = << [ q |-> <<"a", " ", "a">>, source |-> "es", target |-> "en" ] >>

LifecycleTransitions ==
  { <<"idle", "initializing">>, <<"initializing", "recording">>,
    <<"initializing", "idle">>, <<"recording", "stopping">>, <<"stopping", "idle">> }

\* C28: the lifecycle state changes only along the transitions above (a
\* stopRecording or a rejecting startRecording that runs to its end in one
\* step passes through them); it never becomes `recording` from idle or
\* stopping, and a 'connected' event after a stop or a failed start does not
\* change it.
C28_LifecycleOrder ==
  [][ recordingState' # recordingState
      => \/ <<recordingState, recordingState'>> \in LifecycleTransitions
         \/ /\ recordingState' = "idle"
            /\ \/ stopPc = "none" /\ stopPc' # "none"
               \/ startPc # "done" /\ startPc' = "done" ]_vars

\* C29: every recognition socket of the session, the initial one and each
\* reconnection, is configured with the language of the session's source
\* language (en-US for en-es, es for es-en).
C29_SessionLanguage ==
  \A k \in 1..Len(socks) :
     socks[k].language = (IF direction = "en-es" THEN "en-US" ELSE "es")

\* C30: when the connection timeout fires during the handshake,
\* startRecording rejects with the timeout error; the socket of that attempt
\* never becomes open afterwards, and neither status LISTENING nor state
\* `recording` results from it.
C30_TimeoutAbortsAttempt ==
  /\ [][ (startPc = "connect" /\ connTimeout = "armed" /\ connTimeout' = "fired")
         => (startPc' = "done" /\ startResult' = "TIMEOUT") ]_vars
  /\ [][ startResult = "TIMEOUT"
         => \A k \in 1..Len(socks) :
              (socks[k].kind = "initial" /\ socks[k].state = "connecting")
                => /\ socks'[k].state # "open"
                   /\ status' # "LISTENING"
                   /\ recordingState' # "recording" ]_vars

\* C31: the k-th reconnection attempt of an outage (k = 1, 2) is scheduled
\* with delay 1000 * 2^(k-1) ms; a handshake that completes resets the delay
\* to 1000 ms and the attempt counter to 0; the counter stays within 0..2.
C31_ExponentialBackoff ==
  /\ [](reconnectAttempts \in 0..2)
  /\ [][ Len(reconnectTimers') > Len(reconnectTimers)
         => /\ reconnectAttempts' = reconnectAttempts + 1
            /\ reconnectAttempts' \in {1, 2}
            /\ reconnectTimers'[Len(reconnectTimers')]
                 = 1000 * 2 ^ (reconnectAttempts' - 1) ]_vars
  /\ [][ (\E k \in 1..Len(socks) :
             socks[k].state = "connecting" /\ socks'[k].state = "open")
         => (reconnectDelay' = 1000 /\ reconnectAttempts' = 0) ]_vars

\* the first reconnection attempt failed and the second one is scheduled
C31_Witness ==
  /\ reconnectAttempts = 2
  /\ reconnectTimers = <<2000>>
  /\ \E k \in 1..Len(socks) : socks[k].kind = "reconnect" /\ socks[k].state = "closed"

\* C32: a close event calls attemptReconnection exactly when its code is not
\* 1000 and the recording flag is set at that moment; the close event of a
\* socket that stop() closed, and a close event before startRecording() set
\* the flag, never call it.
C32_ReconnectGate ==
  /\ [][ lastClose' # lastClose
         => /\ attemptCalls' \in {attemptCalls, attemptCalls + 1}
            /\ attemptCalls' = attemptCalls + 1
                 <=> (lastClose'.code # 1000 /\ isRecording) ]_vars
  /\ [][ (\E k \in 1..Len(socks) :
             socks[k].state = "closing" /\ socks'[k].state = "closed")
         => attemptCalls' = attemptCalls ]_vars

\* an unexpected closure during recording has started the reconnection path,
\* and the closure that a later stop() caused, with code 1006, has not
C32_Witness ==
  /\ attemptCalls = 1
  /\ Len(socks) = 2
  /\ socks[1].state = "closed" /\ socks[2].state = "closed"
  /\ lastClose = [ sock |-> 2, code |-> 1006 ]
  /\ stopPc = "done" /\ ~isRecording

(* ------------------------------- C33 ---------------------------------- *)
\* C33: right after an UtteranceEnd message has been handled the accumulator
\* is empty and no quiet timer is armed; every utterance emitted is the join
\* of exactly the fragments accumulated since the previous emission, one
\* utterance per flush, so no fragment is emitted a second time by a later
\* timer expiry or boundary.
C33_FlushedOnce ==
  /\ []((lastFlush.trigger = "boundary" /\ frags = <<>>)
          => (pendingUtterance = <<>> /\ flushTimer = 0 /\ timeouts = {}))
  /\ [][ Len(emitted') > Len(emitted)
         => /\ Len(emitted') = Len(emitted) + 1
            /\ owed # <<>>
            /\ emitted'[Len(emitted')] = JoinSp(owed)
            /\ owed' = <<>>
            /\ pendingUtterance' = <<>> ]_vars

\* two utterances have been emitted, the second at a boundary
C33_Witness ==
  /\ Len(emitted) = 2
  /\ emitted[1] = <<"a">> /\ emitted[2] = <<"b">>
  /\ lastFlush.trigger = "boundary" /\ lastFlush.n = 1
  /\ frags = <<>> /\ pendingUtterance = <<>> /\ timeouts = {}

(* ------------------------------- C34 ---------------------------------- *)
\* the step delivers a finality-flagged fragment; its text is the last
\* element of frags afterwards
FinalDelivered == nFrags' = nFrags + 1

\* C34 as stated: a finality-flagged fragment whose trimmed text is empty
\* changes neither the accumulator nor the quiet timer and emits nothing, and
\* an armed quiet timer implies a non-empty accumulator.
C34_BlankFinalIsNoOp ==
  /\ [](timeouts # {} => pendingUtterance # <<>>)
  /\ [][ (FinalDelivered /\ Trim(frags'[Len(frags')]) = <<>>)
         => /\ pendingUtterance' = pendingUtterance
            /\ timeouts' = timeouts /\ flushTimer' = flushTimer
            /\ emitted' = emitted ]_vars

\* C34: frame condition of message handling. Only a finality-flagged fragment
\* with a non-empty transcript extends the accumulator or arms the quiet
\* timer, and no fragment emits; such a fragment (re)arms the single quiet
\* timer, extends the accumulator exactly when its trimmed text is non-empty,
\* and a finality-flagged fragment with an empty transcript changes neither.
C34_FrameCondition ==
  /\ [][ FinalDelivered
         => LET t == frags'[Len(frags')]
            IN  /\ emitted' = emitted
                /\ Trim(t) = <<>> => pendingUtterance' = pendingUtterance
                /\ Trim(t) # <<>>
                     => pendingUtterance' = AccumulatePiece(pendingUtterance, Trim(t))
                /\ t = <<>> => (timeouts' = timeouts /\ flushTimer' = flushTimer)
                /\ t # <<>> => (flushTimer' # 0 /\ timeouts' = {flushTimer'}) ]_vars
  /\ [][ ( \/ (pendingUtterance' # pendingUtterance /\ pendingUtterance' # <<>>)
           \/ ~(timeouts' \subseteq timeouts) )
         => (FinalDelivered /\ frags'[Len(frags')] # <<>>) ]_vars

\* a whitespace-only final fragment has armed the quiet timer on an empty
\* accumulator
C34_Witness ==
  /\ frags = << <<" ">> >> /\ lastFlush = NoFlush
  /\ pendingUtterance = <<>> /\ flushTimer # 0 /\ timeouts = {flushTimer}
  /\ emitted = <<>>

(* ------------------------------- C35 ---------------------------------- *)
\* C35: once stopRecording has returned, onTranslationReceived is not called
\* any more and neither the error field nor the has-any-content flag of the
\* controller changes, whatever translation was in flight and whatever quiet
\* timer was armed when stop ran.
C35_SilentAfterStop ==
  [][ stopPc = "done"
      => /\ uiLines' = uiLines
         /\ error' = error
         /\ hasTranscriptContentRef' = hasTranscriptContentRef ]_vars

(* ------------------------------- C36 ---------------------------------- *)
\* C36: session isolation of the transcript files. Every line written to the
\* two files comes from an utterance recognised in the session that created
\* them; an utterance of an earlier session never has a line written to the
\* files of a later one.
C36_SessionIsolation ==
  [][ ( /\ ipcQ # <<>> /\ Head(ipcQ).op = "append"
        /\ (Len(fileEn') > Len(fileEn) \/ Len(fileEs') > Len(fileEs)) )
      => utts[Head(ipcQ).utt].session = filesOf ]_vars

(* ------------------------------- C37 ---------------------------------- *)
\* C37: every finalized utterance delivered by the Segmenter hands at most
\* one Translation Line to the UI callback, so the lines handed over never
\* outnumber the utterances delivered.
C37_OneLinePerUtterance == Len(uiLines) <= Len(emitted)

(* ------------------------------- C38 ---------------------------------- *)
\* C38: whenever the lifecycle state is `recording` the mixer, Segmenter and
\* translation references are set, the Segmenter's recording flag is armed
\* and the encoder has been started.
C38_RecordingHasResources ==
  recordingState = "recording"
    => /\ audioMixerRef /\ deepgramClientRef /\ translationServiceRef
       /\ isRecording /\ mediaRecorder

(* ------------------------------- C39 ---------------------------------- *)
\* C39 as stated: in every state of the mixer cleanup() leaves every node,
\* stream, recorder and audio-context reference null, and a second call
\* changes nothing.
C39_CleanupNullsEverything ==
  LET c == AudioMixerCleanup(mixer)
  IN  c = NullMixer /\ AudioMixerCleanup(c) = c

\* C39: AudioMixer.cleanup() is total and idempotent. In every state of the
\* mixer it returns normally and leaves every node, stream and audio-context
\* reference null and no recorder running: the recorder reference is null,
\* unless the recorder had already stopped by itself, in which case the
\* reference to the inactive recorder is kept. A second consecutive call
\* changes no field.
C39_CleanupIdempotent ==
  /\ [](LET c == AudioMixerCleanup(mixer)
        IN  /\ AudioMixerCleanup(c) = c
            /\ c = [ NullMixer EXCEPT !.mediaRecorder =
                       IF mixer.mediaRecorder = "inactive" THEN "inactive" ELSE "null" ])
  /\ [][ (mixerCalls'.last.op = "cleanup" /\ mixerCalls'.consecutive # mixerCalls.consecutive)
         => /\ mixerCalls'.last.outcome = "ok"
            /\ mixer' = AudioMixerCleanup(mixer)
            /\ mixer'.mediaRecorder # "recording"
            /\ mixerCalls'.consecutive > 1 => mixer' = mixer ]_vars

\* cleanup() has been called twice in a row on a mixer that was streaming
C39_Witness ==
  /\ mixerCalls.last.op = "cleanup" /\ mixerCalls.consecutive = 2
  /\ mixerCalls.from = "streaming"
  /\ mixer = NullMixer

(* ------------------------------- C40 ---------------------------------- *)
\* C40: once cleanup() has been called, every other method fails and the
\* mixer holds no audio context, audio graph, device stream or running
\* recorder again.
C40_CleanedUpIsFinal ==
  mixerCalls.cleaned
    => /\ mixerCalls.last.op # "cleanup" => mixerCalls.last.outcome = "threw"
       /\ mixer.audioContext = "null" /\ ~mixer.destinationNode
       /\ ~mixer.micStream /\ ~mixer.systemStream
       /\ ~mixer.mixedStream /\ mixer.mediaRecorder # "recording"

====
